---- MODULE Spec2Model ----
(***************************************************************************)
(* Box-art retrieval engine of mister_discordrp.py: catalog load, platform *)
(* alias resolution, candidate scoring and match selection.                *)
(*                                                                         *)
(* A Python str is modelled as a sequence of one-character strings, so     *)
(* that normalisation, stemming, the regular expressions and difflib's     *)
(* SequenceMatcher are computed character by character as the code does.   *)
(***************************************************************************)
EXTENDS Integers, Sequences, FiniteSets, TLC

(***************************************************************************)
(* Characters                                                              *)
(***************************************************************************)
UpperCase == <<"A","B","C","D","E","F","G","H","I","J","K","L","M","N","O","P","Q","R","S","T","U","V","W","X","Y","Z">>
LowerCase == <<"a","b","c","d","e","f","g","h","i","j","k","l","m","n","o","p","q","r","s","t","u","v","w","x","y","z">>
DigitChars == <<"0","1","2","3","4","5","6","7","8","9">>
\* The printable ASCII characters in code-point order, from chr(32) on (the
\* double quote, the backslash and the backtick, which no modelled string
\* holds, by name).
AsciiPrintable == <<" ","!","dquote","#","$","%","&","'","(",")","*","+",",","-",".","/","0","1","2","3","4","5","6","7","8","9",":",";","<","=",">","?","@","A","B","C","D","E","F","G","H","I","J","K","L","M","N","O","P","Q","R","S","T","U","V","W","X","Y","Z","[","backslash","]","^","_","backtick","a","b","c","d","e","f","g","h","i","j","k","l","m","n","o","p","q","r","s","t","u","v","w","x","y","z","{","|","}","~">>

Range(s) == {s[i] : i \in 1..Len(s)}

\* ord(c): Python compares strings by code point.
Ord(c) == 31 + (CHOOSE i \in 1..Len(AsciiPrintable) : AsciiPrintable[i] = c)

\* str.lower() on one character.
LowerChar(c) ==
    IF c \in Range(UpperCase)
    THEN LowerCase[CHOOSE i \in 1..Len(UpperCase) : UpperCase[i] = c]
    ELSE c

\* the classes [A-Za-z0-9] (str.isalnum on ASCII) and [a-z0-9]
Alnum == Range(UpperCase) \cup Range(LowerCase) \cup Range(DigitChars)
LowerAlnum == Range(LowerCase) \cup Range(DigitChars)
IsAlnum(c) == c \in Alnum
IsSpace(c) == c = " "

(***************************************************************************)
(* Strings                                                                 *)
(***************************************************************************)
Lower(s) == [i \in 1..Len(s) |-> LowerChar(s[i])]

\* s[i..j] (1-based, inclusive); empty when i > j.
Slice(s, i, j) == IF i > j THEN <<>> ELSE SubSeq(s, i, j)

\* str.startswith
StartsWith(s, p) == Len(p) <= Len(s) /\ Slice(s, 1, Len(p)) = p

\* the Python operator "sub in s"
Contains(sub, s) ==
    \E i \in 1..(Len(s) - Len(sub) + 1) : Slice(s, i, i + Len(sub) - 1) = sub

\* s.find(c, from): the first index >= from holding c, 0 when there is none.
IndexFrom(s, c, from) ==
    IF \E i \in from..Len(s) : s[i] = c
    THEN CHOOSE i \in from..Len(s) : s[i] = c /\ \A k \in from..(i - 1) : s[k] # c
    ELSE 0

\* s.rfind(c): the last index holding c, 0 when there is none.
LastIndex(s, c) ==
    IF \E i \in 1..Len(s) : s[i] = c
    THEN CHOOSE i \in 1..Len(s) : s[i] = c /\ \A k \in (i + 1)..Len(s) : s[k] # c
    ELSE 0

\* str.strip() (whitespace at both ends)
RECURSIVE LStrip(_)
LStrip(s) == IF s # <<>> /\ IsSpace(s[1]) THEN LStrip(Tail(s)) ELSE s
RECURSIVE RStrip(_)
RStrip(s) ==
    IF s # <<>> /\ IsSpace(s[Len(s)]) THEN RStrip(Slice(s, 1, Len(s) - 1)) ELSE s
Strip(s) == RStrip(LStrip(s))

\* Python ordering of two strings: s < t by code points.
RECURSIVE StrLess(_, _)
StrLess(s, t) ==
    IF t = <<>> THEN FALSE
    ELSE IF s = <<>> THEN TRUE
    ELSE IF s[1] # t[1] THEN Ord(s[1]) < Ord(t[1])
    ELSE StrLess(Tail(s), Tail(t))

\* " ".join(words)
RECURSIVE JoinSpace(_)
JoinSpace(words) ==
    IF words = <<>> THEN <<>>
    ELSE IF Len(words) = 1 THEN words[1]
    ELSE words[1] \o <<" ">> \o JoinSpace(Tail(words))

\* re.findall of a character class repeated one or more times: the maximal
\* runs of characters of the class, left to right.
RECURSIVE Runs(_, _, _, _)
Runs(s, i, cur, class) ==
    IF i > Len(s) THEN (IF cur = <<>> THEN <<>> ELSE <<cur>>)
    ELSE IF s[i] \in class THEN Runs(s, i + 1, Append(cur, s[i]), class)
    ELSE (IF cur = <<>> THEN <<>> ELSE <<cur>>) \o Runs(s, i + 1, <<>>, class)

(***************************************************************************)
(* Program constants                                                       *)
(***************************************************************************)
BAD_QUALIFIERS == {
    <<"d","e","m","o">>,
    <<"k","i","o","s","k">>,
    <<"b","e","t","a">>,
    <<"p","r","o","t","o","t","y","p","e">>,
    <<"p","r","o","t","o">>,
    <<"s","a","m","p","l","e">>,
    <<"p","r","e","r","e","l","e","a","s","e">>,
    <<"t","r","i","a","l">>,
    <<"r","e","v","i","e","w">>,
    <<"e","v","e","n","t">>,
    <<"n","o","t"," ","f","o","r"," ","r","e","s","a","l","e">>
  }
SOFT_QUALIFIERS == {
    <<"r","e","v">>,
    <<"a","l","t">>
  }
REGION_WORDS == {
    <<"u","s","a">>,
    <<"e","u","r","o","p","e">>,
    <<"j","a","p","a","n">>,
    <<"w","o","r","l","d">>,
    <<"a","s","i","a">>,
    <<"k","o","r","e","a">>,
    <<"a","u","s","t","r","a","l","i","a">>,
    <<"c","a","n","a","d","a">>,
    <<"b","r","a","z","i","l">>
  }

\* A dict is modelled as the sequence of its <<key, value>> items, in the
\* insertion order Python keeps.
SYSTEM_MAP == <<
    <<<<"N","E","S">>,
      <<"N","i","n","t","e","n","d","o"," ","-"," ","N","i","n","t","e","n","d","o"," ","E","n","t","e","r","t","a","i","n","m","e","n","t"," ","S","y","s","t","e","m">>>>,
    <<<<"S","N","E","S">>,
      <<"N","i","n","t","e","n","d","o"," ","-"," ","S","u","p","e","r"," ","N","i","n","t","e","n","d","o"," ","E","n","t","e","r","t","a","i","n","m","e","n","t"," ","S","y","s","t","e","m">>>>,
    <<<<"G","a","m","e"," ","B","o","y">>,
      <<"N","i","n","t","e","n","d","o"," ","-"," ","G","a","m","e"," ","B","o","y">>>>,
    <<<<"G","a","m","e"," ","B","o","y"," ","C","o","l","o","r">>,
      <<"N","i","n","t","e","n","d","o"," ","-"," ","G","a","m","e"," ","B","o","y"," ","C","o","l","o","r">>>>,
    <<<<"G","a","m","e"," ","B","o","y"," ","A","d","v","a","n","c","e">>,
      <<"N","i","n","t","e","n","d","o"," ","-"," ","G","a","m","e"," ","B","o","y"," ","A","d","v","a","n","c","e">>>>,
    <<<<"G","e","n","e","s","i","s">>,
      <<"S","e","g","a"," ","-"," ","M","e","g","a"," ","D","r","i","v","e"," ","-"," ","G","e","n","e","s","i","s">>>>,
    <<<<"M","a","s","t","e","r"," ","S","y","s","t","e","m">>,
      <<"S","e","g","a"," ","-"," ","M","a","s","t","e","r"," ","S","y","s","t","e","m"," ","-"," ","M","a","r","k"," ","I","I","I">>>>,
    <<<<"S","M","S">>,
      <<"S","e","g","a"," ","-"," ","M","a","s","t","e","r"," ","S","y","s","t","e","m"," ","-"," ","M","a","r","k"," ","I","I","I">>>>,
    <<<<"P","l","a","y","S","t","a","t","i","o","n">>,
      <<"S","o","n","y"," ","-"," ","P","l","a","y","S","t","a","t","i","o","n">>>>,
    <<<<"P","S","2">>,
      <<"S","o","n","y"," ","-"," ","P","l","a","y","S","t","a","t","i","o","n"," ","2">>>>,
    <<<<"P","S","3">>,
      <<"S","o","n","y"," ","-"," ","P","l","a","y","S","t","a","t","i","o","n"," ","3">>>>,
    <<<<"P","S","4">>,
      <<"S","o","n","y"," ","-"," ","P","l","a","y","S","t","a","t","i","o","n"," ","4">>>>,
    <<<<"X","b","o","x">>,
      <<"M","i","c","r","o","s","o","f","t"," ","-"," ","X","b","o","x">>>>,
    <<<<"X","b","o","x"," ","3","6","0">>,
      <<"M","i","c","r","o","s","o","f","t"," ","-"," ","X","b","o","x"," ","3","6","0">>>>
  >>

CONFIDENCE_MIN_SCOPED == 80
CONFIDENCE_MIN_UNSCOPED == 90

PRETTY_SYSTEMS == <<
    <<"A","d","v","e","n","t","u","r","e"," ","V","i","s","i","o","n">>,
    <<"A","r","c","a","d","i","a"," ","2","0","0","1">>,
    <<"A","t","a","r","i"," ","2","6","0","0">>,
    <<"A","t","a","r","i"," ","5","2","0","0">>,
    <<"A","t","a","r","i"," ","7","8","0","0">>,
    <<"A","t","a","r","i"," ","L","y","n","x">>,
    <<"B","a","l","l","y"," ","A","s","t","r","o","c","a","d","e">>,
    <<"C","a","s","i","o"," ","P","V","-","1","0","0","0">>,
    <<"C","h","a","n","n","e","l"," ","F">>,
    <<"C","o","l","e","c","o","V","i","s","i","o","n">>,
    <<"F","a","m","i","c","o","m"," ","D","i","s","k"," ","S","y","s","t","e","m">>,
    <<"G","a","m","a","t","e">>,
    <<"G","a","m","e"," ","&"," ","W","a","t","c","h">>,
    <<"G","a","m","e"," ","B","o","y">>,
    <<"G","a","m","e"," ","G","e","a","r">>,
    <<"G","a","m","e","b","o","y"," ","(","2"," ","P","l","a","y","e","r",")">>,
    <<"G","a","m","e","b","o","y"," ","A","d","v","a","n","c","e">>,
    <<"G","a","m","e","b","o","y"," ","A","d","v","a","n","c","e"," ","(","2"," ","P","l","a","y","e","r",")">>,
    <<"G","a","m","e","b","o","y"," ","C","o","l","o","r">>,
    <<"G","e","n","e","s","i","s"," ","+">>,
    <<"G","e","n","e","s","i","s"," ","3","2","X">>,
    <<"I","n","t","e","l","l","i","v","i","s","i","o","n">>,
    <<"M","a","g","n","a","v","o","x"," ","O","d","y","s","s","e","y","2">>,
    <<"M","a","s","t","e","r"," ","S","y","s","t","e","m">>,
    <<"M","e","g","a"," ","D","u","c","k">>,
    <<"N","e","o"," ","G","e","o"," ","C","D">>,
    <<"N","e","o"," ","G","e","o"," ","M","V","S","/","A","E","S">>,
    <<"N","E","S">>,
    <<"N","i","n","t","e","n","d","o"," ","6","4">>,
    <<"S","o","n","y"," ","P","l","a","y","S","t","a","t","i","o","n">>,
    <<"P","o","c","k","e","t"," ","C","h","a","l","l","e","n","g","e"," ","2">>,
    <<"P","o","k","e","m","o","n"," ","M","i","n","i">>,
    <<"S","a","t","u","r","n">>,
    <<"S","e","g","a"," ","C","D">>,
    <<"S","G","-","1","0","0","0">>,
    <<"S","u","p","e","r"," ","G","a","m","e","b","o","y">>,
    <<"S","u","p","e","r"," ","N","E","S">>,
    <<"S","u","p","e","r","G","r","a","f","x">>,
    <<"S","u","p","e","r","V","i","s","i","o","n">>,
    <<"T","u","r","b","o","G","r","a","f","x","-","1","6">>,
    <<"T","u","r","b","o","G","r","a","f","x","-","1","6"," ","C","D">>,
    <<"V","C"," ","4","0","0","0">>,
    <<"V","e","c","t","r","e","x">>,
    <<"V","T","e","c","h"," ","C","r","e","a","t","i","V","i","s","i","o","n">>,
    <<"W","o","n","d","e","r","S","w","a","n">>,
    <<"W","o","n","d","e","r","S","w","a","n"," ","C","o","l","o","r">>,
    <<"A","m","i","g","a">>,
    <<"A","m","s","t","r","a","d"," ","C","P","C">>,
    <<"A","m","s","t","r","a","d"," ","P","C","W">>,
    <<"A","p","o","g","e","e"," ","B","K","-","0","1">>,
    <<"A","p","p","l","e"," ","I">>,
    <<"A","p","p","l","e"," ","I","I","e">>,
    <<"A","t","a","r","i"," ","8","0","0","X","L">>,
    <<"A","t","o","m">>,
    <<"B","B","C"," ","M","i","c","r","o","/","M","a","s","t","e","r">>,
    <<"B","K","0","0","1","1","M">>,
    <<"C","a","s","i","o"," ","P","V","-","2","0","0","0">>,
    <<"C","o","m","m","o","d","o","r","e"," ","1","6">>,
    <<"C","o","m","m","o","d","o","r","e"," ","6","4">>,
    <<"C","o","m","m","o","d","o","r","e"," ","P","E","T"," ","2","0","0","1">>,
    <<"C","o","m","m","o","d","o","r","e"," ","V","I","C","-","2","0">>,
    <<"E","D","S","A","C">>,
    <<"E","l","e","c","t","r","o","n">>,
    <<"G","a","l","a","k","s","i","j","a">>,
    <<"I","n","t","e","r","a","c","t">>,
    <<"J","u","p","i","t","e","r"," ","A","c","e">>,
    <<"L","a","s","e","r"," ","3","5","0","/","5","0","0","/","7","0","0">>,
    <<"L","y","n","x"," ","4","8","/","9","6","K">>,
    <<"M","5">>,
    <<"M","a","c","i","n","t","o","s","h"," ","P","l","u","s">>,
    <<"M","a","t","t","e","l"," ","A","q","u","a","r","i","u","s">>,
    <<"M","S","X"," ","(","1","c","h","i","p","M","S","X",")">>,
    <<"M","u","l","t","i","C","o","m","p">>,
    <<"O","r","a","o">>,
    <<"O","r","i","c">>,
    <<"P","C"," ","(","4","8","6","S","X",")">>,
    <<"P","C","/","X","T">>,
    <<"P","D","P","-","1">>,
    <<"P","M","D"," ","8","5","-","2","A">>,
    <<"R","X","-","7","8"," ","G","u","n","d","a","m">>,
    <<"S","A","M"," ","C","o","u","p","e">>,
    <<"S","i","n","c","l","a","i","r"," ","Q","L">>,
    <<"S","p","e","c","i","a","l","i","s","t","/","M","X">>,
    <<"S","V","-","3","2","8">>,
    <<"T","a","n","d","y"," ","M","C","-","1","0">>,
    <<"T","a","t","u","n","g"," ","E","i","n","s","t","e","i","n">>,
    <<"T","I","-","9","9","/","4","A">>,
    <<"T","R","S","-","8","0">>,
    <<"T","R","S","-","8","0"," ","C","o","C","o"," ","2">>,
    <<"T","S","-","1","5","0","0">>,
    <<"T","S","-","C","o","n","f","i","g">>,
    <<"T","u","t","o","r">>,
    <<"U","K","1","0","1">>,
    <<"V","e","c","t","o","r","-","0","6","C">>,
    <<"X","6","8","0","0","0">>,
    <<"Z","X"," ","S","p","e","c","t","r","u","m">>,
    <<"Z","X"," ","S","p","e","c","t","r","u","m"," ","N","e","x","t">>,
    <<"A","r","d","u","b","o","y">>,
    <<"C","H","I","P","-","8">>
  >>

\* the local dict extras of _build_system_aliases
ALIAS_EXTRAS == <<
    <<<<"P","S","X">>,
      <<"S","o","n","y"," ","P","l","a","y","S","t","a","t","i","o","n">>>>,
    <<<<"P","S","1">>,
      <<"S","o","n","y"," ","P","l","a","y","S","t","a","t","i","o","n">>>>,
    <<<<"S","N","E","S">>,
      <<"S","u","p","e","r"," ","N","E","S">>>>,
    <<<<"S","F","C">>,
      <<"S","u","p","e","r"," ","N","E","S">>>>,
    <<<<"F","D","S">>,
      <<"F","a","m","i","c","o","m"," ","D","i","s","k"," ","S","y","s","t","e","m">>>>,
    <<<<"N","6","4">>,
      <<"N","i","n","t","e","n","d","o"," ","6","4">>>>,
    <<<<"S","G","B">>,
      <<"S","u","p","e","r"," ","G","a","m","e","b","o","y">>>>,
    <<<<"G","e","n","e","s","i","s">>,
      <<"G","e","n","e","s","i","s"," ","+">>>>,
    <<<<"M","e","g","a"," ","D","r","i","v","e">>,
      <<"G","e","n","e","s","i","s"," ","+">>>>,
    <<<<"3","2","X">>,
      <<"G","e","n","e","s","i","s"," ","3","2","X">>>>,
    <<<<"P","C","E">>,
      <<"T","u","r","b","o","G","r","a","f","x","-","1","6">>>>,
    <<<<"P","C","E","-","C","D">>,
      <<"T","u","r","b","o","G","r","a","f","x","-","1","6"," ","C","D">>>>,
    <<<<"T","G","-","1","6">>,
      <<"T","u","r","b","o","G","r","a","f","x","-","1","6">>>>,
    <<<<"T","G","-","C","D">>,
      <<"T","u","r","b","o","G","r","a","f","x","-","1","6"," ","C","D">>>>
  >>

(***************************************************************************)
(* Python values                                                           *)
(***************************************************************************)
\* None, where the code uses it for a str; no str equals it.
None == <<"None">>
\* the truth value Python gives a str or None
Truthy(x) == x # None /\ x # <<>>

\* dict operations on a sequence of items
DictKeys(d) == {d[i][1] : i \in 1..Len(d)}
DictGet(d, k) == d[CHOOSE i \in 1..Len(d) : d[i][1] = k][2]

SetMax(S) == CHOOSE x \in S : \A y \in S : y <= x
SetMin(S) == CHOOSE x \in S : \A y \in S : x <= y

(***************************************************************************)
(* difflib.SequenceMatcher(None, a, b), as the code uses it: no junk, and  *)
(* no autojunk since every string is shorter than 200 characters.          *)
(***************************************************************************)
\* length of the common run that starts at a[i] and b[j]
RECURSIVE MatchLen(_, _, _, _, _, _)
MatchLen(a, b, i, j, ahi, bhi) ==
    IF i > ahi \/ j > bhi THEN 0
    ELSE IF a[i] # b[j] THEN 0
    ELSE 1 + MatchLen(a, b, i + 1, j + 1, ahi, bhi)

\* find_longest_match: <<i, j, k>>, the longest block a[i..i+k-1] = b[j..j+k-1]
\* within a[alo..ahi], b[blo..bhi]; of the longest blocks the one starting
\* earliest in a, and of those the one starting earliest in b.
FindLongestMatch(a, b, alo, ahi, blo, bhi) ==
    LET starts == {p \in (alo..ahi) \X (blo..bhi) :
                      /\ a[p[1]] = b[p[2]]
                      /\ (p[1] = alo \/ p[2] = blo \/ a[p[1] - 1] # b[p[2] - 1])}
        blocks == {<<p[1], p[2], MatchLen(a, b, p[1], p[2], ahi, bhi)>> : p \in starts}
        k      == SetMax({t[3] : t \in blocks})
        i      == SetMin({t[1] : t \in {u \in blocks : u[3] = k}})
        j      == SetMin({t[2] : t \in {u \in blocks : u[3] = k /\ u[1] = i}})
    IN  IF starts = {} THEN <<alo, blo, 0>> ELSE <<i, j, k>>

\* the sum of the sizes of get_matching_blocks()
RECURSIVE MatchingSize(_, _, _, _, _, _)
MatchingSize(a, b, alo, ahi, blo, bhi) ==
    IF alo > ahi \/ blo > bhi THEN 0
    ELSE LET m == FindLongestMatch(a, b, alo, ahi, blo, bhi)
         IN  IF m[3] = 0 THEN 0
             ELSE m[3]
                  + MatchingSize(a, b, alo, m[1] - 1, blo, m[2] - 1)
                  + MatchingSize(a, b, m[1] + m[3], ahi, m[2] + m[3], bhi)

\* ratio() = 2.0 * M / T (1.0 when T = 0), kept as the pair M, T
Matches(a, b) == MatchingSize(a, b, 1, Len(a), 1, Len(b))

(***************************************************************************)
(* Text helpers of the engine                                              *)
(***************************************************************************)
NormalizeKey(name) == SelectSeq(Lower(name), IsAlnum)

\* os.path.splitext(name)[0]: cut at the last dot, when it follows the last
\* "/" and some character between them is not a dot.
Stem(name) ==
    LET sepIndex == LastIndex(name, "/")
        dotIndex == LastIndex(name, ".")
    IN  IF /\ dotIndex > sepIndex
           /\ \E k \in (sepIndex + 1)..(dotIndex - 1) : name[k] # "."
        THEN Slice(name, 1, dotIndex - 1)
        ELSE name

Tok(s) == Runs(Lower(s), 1, <<>>, LowerAlnum)

\* re.findall(r"\((.*?)\)", s): from the first "(" to the first ")" after it
RECURSIVE ParenGroups(_, _)
ParenGroups(s, from) ==
    LET open == IndexFrom(s, "(", from)
    IN  IF open = 0 THEN <<>>
        ELSE LET close == IndexFrom(s, ")", open + 1)
             IN  IF close = 0 THEN <<>>
                 ELSE <<Slice(s, open + 1, close - 1)>> \o ParenGroups(s, close + 1)

ParenTokens(stem) ==
    LET raw == ParenGroups(stem, 1)
    IN  [i \in 1..Len(raw) |-> Lower(Strip(raw[i]))]

IsRegionToken(t) == \E r \in REGION_WORDS : Contains(r, t)

RegionTokensFromTitle(title) ==
    {t \in Range(ParenTokens(title)) : IsRegionToken(t)}

RECURSIVE SkipSpaces(_, _)
SkipSpaces(s, i) == IF i <= Len(s) /\ IsSpace(s[i]) THEN SkipSpaces(s, i + 1) ELSE i

\* re.sub(r"\s*\([^)]*\)", "", s)
RECURSIVE StripParens(_, _)
StripParens(s, i) ==
    IF i > Len(s) THEN <<>>
    ELSE LET j     == SkipSpaces(s, i)
             close == IF j <= Len(s) /\ s[j] = "("
                      THEN IndexFrom(s, ")", j + 1) ELSE 0
         IN  IF close # 0 THEN StripParens(s, close + 1)
             ELSE <<s[i]>> \o StripParens(s, i + 1)

BaseTokens(title) ==
    SelectSeq(Runs(Lower(StripParens(title, 1)), 1, <<>>, Alnum), LAMBDA t : Len(t) >= 4)

(***************************************************************************)
(* _score_candidate, one definition per adjustment                         *)
(***************************************************************************)
\* the base score had the ratio branch been scaled to 100 as the other branches
BaseScoreRatioTo100(key, target_key) ==
    IF key = target_key THEN 100
    ELSE IF StartsWith(key, target_key) \/ StartsWith(target_key, key) THEN 96
    ELSE IF Contains(target_key, key) THEN 92
    ELSE (200 * Matches(target_key, key)) \div (Len(target_key) + Len(key))

BaseScore(key, target_key) ==
    IF key = target_key THEN 100
    ELSE IF StartsWith(key, target_key) \/ StartsWith(target_key, key) THEN 96
    ELSE IF Contains(target_key, key) THEN 92
    ELSE IF Len(target_key) + Len(key) = 0 THEN 60
    ELSE (120 * Matches(target_key, key)) \div (Len(target_key) + Len(key))

CandRegions(stem) == {t \in Range(ParenTokens(stem)) : IsRegionToken(t)}

RegionBonus(stem, region_hint) ==
    IF region_hint # {} /\ (CandRegions(stem) \cap region_hint) # {} THEN 5 ELSE 0

BadQualifierPenalty(stem) ==
    IF \E q \in BAD_QUALIFIERS : Contains(q, JoinSpace(ParenTokens(stem)))
    THEN 30 ELSE 0

SoftQualifierPenalty(stem) ==
    IF \E q \in SOFT_QUALIFIERS : Contains(q, JoinSpace(ParenTokens(stem)))
    THEN 5 ELSE 0

NonRegionExtras(stem) ==
    SelectSeq(ParenTokens(stem), LAMBDA t : t \notin CandRegions(stem))

\* a token that holds a bad or a soft qualifier
CarriesQualifier(t) == \E q \in BAD_QUALIFIERS \cup SOFT_QUALIFIERS : Contains(q, t)

\* the extras penalty had it passed over the tokens that hold a qualifier
ExtrasPenaltyUnpenalizedOnly(stem) ==
    3 * Len(SelectSeq(NonRegionExtras(stem), LAMBDA t : ~ CarriesQualifier(t)))

ExtrasPenalty(stem) == 3 * Len(NonRegionExtras(stem))

BaseTokenPenalty(key, base_tokens) ==
    IF base_tokens # <<>> /\ ~ \E i \in 1..Len(base_tokens) : Contains(base_tokens[i], key)
    THEN 40 ELSE 0

LengthPenalty(stem, target_stem_len) ==
    LET d == Len(stem) - target_stem_len
        q == IF d < 0 THEN 0 ELSE d \div 10
    IN  IF q > 5 THEN 5 ELSE q

ScoreCandidate(stem, key, target_key, region_hint, target_stem_len, base_tokens) ==
    BaseScore(key, target_key)
    + RegionBonus(stem, region_hint)
    - BadQualifierPenalty(stem)
    - SoftQualifierPenalty(stem)
    - ExtrasPenalty(stem)
    - BaseTokenPenalty(key, base_tokens)
    - LengthPenalty(stem, target_stem_len)

(***************************************************************************)
(* Platform alias resolver                                                 *)
(***************************************************************************)
\* _sys_match_score: the float r + min(0.10 * overlap, 0.30), kept as the
\* integers that decide it: m, t of ratio() = 2m/t, and the token overlap.
SysMatchScore(pretty, canon) ==
    LET a == JoinSpace(Tok(pretty))
        b == JoinSpace(Tok(canon))
    IN  [m  |-> Matches(a, b),
         t  |-> Len(a) + Len(b),
         ov |-> Cardinality(Range(Tok(pretty)) \cap Range(Tok(canon)))]

\* The score as the fraction ScoreNum / ScoreDen.
ScoreBonus(s) == IF s.ov > 3 THEN 3 ELSE s.ov
ScoreNum(s) == IF s.t = 0 THEN 10 + ScoreBonus(s) ELSE 20 * s.m + ScoreBonus(s) * s.t
ScoreDen(s) == IF s.t = 0 THEN 10 ELSE 10 * s.t
ScoreLess(s1, s2) == ScoreNum(s1) * ScoreDen(s2) < ScoreNum(s2) * ScoreDen(s1)

\* score >= 0.75
ScoreAtLeastAlias(s) == 4 * ScoreNum(s) >= 3 * ScoreDen(s)
\* score >= 0.80. In double arithmetic 0.7 + 0.1 is 0.7999999999999999, the one
\* sum of a ratio and a bonus that equals the threshold and compares below it.
ScoreAtLeastFuzzy(s) ==
    /\ 5 * ScoreNum(s) >= 4 * ScoreDen(s)
    /\ ~ (s.t > 0 /\ 20 * s.m = 7 * s.t /\ s.ov = 1)

\* _best_system_from_cache: the greatest (score, system) pair, None when no
\* system is known. Scores that are equal as fractions are taken to be equal
\* floats.
BestSystemFromCache(name, systems) ==
    IF systems = {} THEN None
    ELSE LET scored == {<<SysMatchScore(name, s), s>> : s \in systems}
         IN  CHOOSE x \in scored : \A y \in scored :
                 \/ ScoreLess(y[1], x[1])
                 \/ (~ ScoreLess(x[1], y[1]) /\ ~ StrLess(x[2], y[2]))

\* the loop over the items of extras, from item i on
RECURSIVE AddExtras(_, _)
AddExtras(map, i) ==
    IF i > Len(ALIAS_EXTRAS) THEN map
    ELSE LET k == ALIAS_EXTRAS[i][1]
             v == ALIAS_EXTRAS[i][2]
         IN  IF v \in DOMAIN map
             THEN AddExtras((k :> map[v]) @@ map, i + 1)
             ELSE AddExtras(map, i + 1)

\* The dict _build_system_aliases leaves in _SYSTEM_ALIAS_MAP when it builds
\* it, as a function from alias to platform folder.
BuildSystemAliases(systems) ==
    LET got    == {<<p, BestSystemFromCache(p, systems)>> : p \in Range(PRETTY_SYSTEMS)}
        kept   == {g \in got : g[2] # None /\ ScoreAtLeastAlias(g[2][1])}
        pretty == [p \in {g[1] : g \in kept} |->
                      (CHOOSE g \in kept : g[1] = p)[2][2]]
    IN  AddExtras(pretty, 1)

\* The resolution steps of _canon_system (its second definition, the one in
\* force) after the cache is loaded and the alias map built. When several
\* folders equal the hint case-insensitively the code returns the first in
\* set order; the modelled catalogs hold no such pair.
CanonResolve(hint, aliasMap, systems) ==
    IF hint \in DOMAIN aliasMap THEN aliasMap[hint]
    ELSE IF \E s \in systems : Lower(s) = Lower(hint)
    THEN CHOOSE s \in systems : Lower(s) = Lower(hint)
    ELSE LET got == BestSystemFromCache(hint, systems)
         IN  IF got # None /\ ScoreAtLeastFuzzy(got[1]) THEN got[2] ELSE None

(***************************************************************************)
(* Catalog index                                                           *)
(***************************************************************************)
\* One line of the catalog source is the sequence of its tab-separated
\* fields: key, system, filename, raw_url, blob_url, abs_path.
\* _load_boxart_cache: what it leaves in CACHE and _SYSTEMS_FROM_CACHE,
\* whether it printed "Box art cache not found", and whether open() raised.
EntryOf(parts) ==
    [system |-> parts[2], fn |-> parts[3], raw_url |-> parts[4],
     blob_url |-> parts[5], key |-> parts[1]]

RECURSIVE ParseLines(_)
ParseLines(lines) ==
    IF lines = <<>> THEN <<>>
    ELSE IF Len(Head(lines)) < 5 THEN ParseLines(Tail(lines))
    ELSE <<EntryOf(Head(lines))>> \o ParseLines(Tail(lines))

LoadBoxartCache(src, cache, systems) ==
    LET same == [cache |-> cache, systems |-> systems,
                 notFound |-> FALSE, raised |-> FALSE]
    IN  IF cache # <<>> THEN same
        ELSE IF src.kind = "absent" THEN [same EXCEPT !.notFound = TRUE]
        ELSE IF src.kind = "unreadable" THEN [same EXCEPT !.raised = TRUE]
        ELSE IF src.lines = <<>> THEN same
        ELSE LET header == Strip(src.lines[1][1])
                 rows   == IF header # <<"k","e","y">>
                           THEN src.lines ELSE Tail(src.lines)
                 loaded == ParseLines(rows)
             IN  [same EXCEPT !.cache = cache \o loaded,
                              !.systems = systems \cup {e.system : e \in Range(loaded)}]

(***************************************************************************)
(* Match selector                                                          *)
(***************************************************************************)
\* the list scoped of find_boxart_and_url
\* the scoped pool had the comparison t[0] == sys_hint been left out
ScopedPoolUnfiltered(cache, sys_hint) ==
    IF Truthy(sys_hint) THEN cache ELSE <<>>

ScopedPool(cache, sys_hint) ==
    IF Truthy(sys_hint)
    THEN SelectSeq(cache, LAMBDA e : e.system = sys_hint)
    ELSE <<>>

Candidates(cache, sys_hint) ==
    IF ScopedPool(cache, sys_hint) # <<>> THEN ScopedPool(cache, sys_hint) ELSE cache

\* the title as the exact-stem loop compares it
LoweredTitleStem(game_name) == Lower(Stem(game_name))

\* index of the first candidate the exact-stem loop returns, 0 when none
ExactStemHit(candidates, game_name) ==
    LET hits == {i \in 1..Len(candidates) :
                    Lower(Stem(candidates[i].fn)) = LoweredTitleStem(game_name)}
    IN  IF hits = {} THEN 0 ELSE SetMin(hits)

\* one tuple of the list scored
ScoredTuple(e, game_name) ==
    <<ScoreCandidate(Stem(e.fn), e.key, NormalizeKey(game_name),
                     RegionTokensFromTitle(game_name), Len(Stem(game_name)),
                     BaseTokens(game_name)),
      Len(e.fn), e.system, e.fn, e.raw_url, e.blob_url, e.key>>

Scored(candidates, game_name) ==
    [i \in 1..Len(candidates) |-> ScoredTuple(candidates[i], game_name)]

\* Python's order on the tuples of scored: x < y
RECURSIVE TupleLessFrom(_, _, _)
TupleLessFrom(x, y, i) ==
    IF i > Len(x) THEN FALSE
    ELSE IF x[i] = y[i] THEN TupleLessFrom(x, y, i + 1)
    ELSE IF i <= 2 THEN x[i] < y[i]
    ELSE StrLess(x[i], y[i])
TupleLess(x, y) == TupleLessFrom(x, y, 1)

\* scored.sort(reverse=True); scored[0]
TopScored(scored) ==
    CHOOSE x \in Range(scored) : \A y \in Range(scored) : ~ TupleLess(x, y)

\* the gate had it used the scoped threshold for every pool
MinNeededScopedOnly(scoped) == CONFIDENCE_MIN_SCOPED

MinNeeded(scoped) ==
    IF scoped # <<>> THEN CONFIDENCE_MIN_SCOPED ELSE CONFIDENCE_MIN_UNSCOPED

NoMatch == <<None, None>>

\* find_boxart_and_url from "candidates = CACHE" on: the line it prints, the
\* locals the line shows, and the pair it returns.
SelectMatch(cache, sys_hint, game_name) ==
    LET scoped     == ScopedPool(cache, sys_hint)
        candidates == Candidates(cache, sys_hint)
        hit        == ExactStemHit(candidates, game_name)
        scored     == Scored(candidates, game_name)
        top        == TopScored(scored)
        min_needed == MinNeeded(scoped)
        shown      == [i \in 1..Len(scored) |-> SubSeq(scored[i], 1, 4)]
        blank      == [line |-> "none", scoped |-> scoped # <<>>, scored |-> <<>>,
                       score |-> 0, min_needed |-> 0,
                       sys |-> None, fn |-> None, ret |-> NoMatch]
    IN  IF hit # 0
        THEN [blank EXCEPT !.line = "exact", !.sys = candidates[hit].system,
                           !.fn = candidates[hit].fn,
                           !.ret = <<candidates[hit].raw_url, candidates[hit].blob_url>>]
        ELSE IF scored = <<>>
        THEN [blank EXCEPT !.line = "no boxart"]
        ELSE LET seen == [blank EXCEPT !.scored = shown, !.score = top[1],
                                       !.min_needed = min_needed,
                                       !.sys = top[3], !.fn = top[4]]
             IN  IF top[1] < min_needed
                 THEN [seen EXCEPT !.line = "low confidence"]
                 ELSE IF Truthy(sys_hint) /\ top[3] # sys_hint
                 THEN [seen EXCEPT !.line = "different system"]
                 ELSE [seen EXCEPT !.line = "scored", !.ret = <<top[5], top[6]>>]

(***************************************************************************)
(* The catalog sources and the queries of the model                        *)
(***************************************************************************)
NES_FOLDER == <<"N","i","n","t","e","n","d","o"," ","-"," ","N","i","n","t","e","n","d","o"," ","E","n","t","e","r","t","a","i","n","m","e","n","t"," ","S","y","s","t","e","m">>
GB_FOLDER == <<"N","i","n","t","e","n","d","o"," ","-"," ","G","a","m","e"," ","B","o","y">>
SMS_FOLDER == <<"S","e","g","a"," ","-"," ","M","a","s","t","e","r"," ","S","y","s","t","e","m"," ","-"," ","M","a","r","k"," ","I","I","I">>
PS_FOLDER == <<"S","o","n","y"," ","-"," ","P","l","a","y","S","t","a","t","i","o","n">>

\* cache-libretro-thumbnails.py writes one row per .png file: the key is the
\* normalised stem; the two locators name the folder and the file (their
\* host and commit prefix is left out).
RawUrl(system, fn) == <<"r","a","w",":">> \o system \o <<"/">> \o fn
BlobUrl(system, fn) == <<"b","l","o","b",":">> \o system \o <<"/">> \o fn
Row(system, fn) ==
    <<NormalizeKey(Stem(fn)), system, fn, RawUrl(system, fn), BlobUrl(system, fn),
      <<"/">> \o fn>>
HeaderLine ==
    <<<<"k","e","y">>,
      <<"s","y","s","t","e","m">>,
      <<"f","i","l","e","n","a","m","e">>,
      <<"r","a","w","_","u","r","l">>,
      <<"b","l","o","b","_","u","r","l">>,
      <<"a","b","s","_","p","a","t","h">>>>

FN_MARIO_USA == <<"M","a","r","i","o"," ","(","U","S","A",")",".","p","n","g">>
FN_MARIO_EUR == <<"M","a","r","i","o"," ","(","E","u","r","o","p","e",")",".","p","n","g">>
FN_DR_MARIO_DEMO == <<"D","r","."," ","M","a","r","i","o"," ","(","D","e","m","o",")",".","p","n","g">>
FN_TETRIS == <<"T","e","t","r","i","s"," ","(","W","o","r","l","d",")",".","p","n","g">>
FN_SONIC_REV == <<"S","o","n","i","c"," ","(","R","e","v"," ","1",")",".","p","n","g">>
FN_CRASH == <<"C","r","a","s","h",".","p","n","g">>

Absent == [kind |-> "absent", lines |-> <<>>]
Unreadable == [kind |-> "unreadable", lines |-> <<>>]
File(lines) == [kind |-> "file", lines |-> lines]

\* a catalog with its header, three platform folders and one short record
CatalogA ==
    File(<<HeaderLine,
           Row(NES_FOLDER, FN_MARIO_USA),
           Row(NES_FOLDER, FN_MARIO_EUR),
           <<<<"t","e","t","r","i","s">>, GB_FOLDER, FN_TETRIS>>,
           Row(NES_FOLDER, FN_DR_MARIO_DEMO),
           Row(GB_FOLDER, FN_TETRIS),
           Row(SMS_FOLDER, FN_SONIC_REV)>>)
\* a catalog without header line
CatalogB ==
    File(<<Row(GB_FOLDER, FN_TETRIS), Row(PS_FOLDER, FN_CRASH)>>)
HeaderOnly == File(<<HeaderLine>>)
EmptyFile == File(<<>>)

Files == {CatalogA, CatalogB, HeaderOnly, EmptyFile}
Sources == {Absent, Unreadable} \cup Files

Hints == {
    <<>>,
    <<"N","E","S">>,
    <<"S","M","S">>,
    <<"G","a","m","e"," ","B","o","y">>,
    <<"M","a","s","t","e","r"," ","S","y","s","t","e","m">>,
    <<"n","i","n","t","e","n","d","o"," ","-"," ","g","a","m","e"," ","b","o","y">>,
    <<"P","S","X">>
  }
Titles == {
    <<>>,
    <<"M","a","r","i","o">>,
    <<"m","a","r","i","o"," ","(","u","s","a",")">>,
    <<"D","r","."," ","M","a","r","i","o"," ","(","D","e","m","o",")">>,
    <<"S","o","n","i","c">>,
    <<"S","o","n","i","c"," ","(","R","e","v"," ","1",")">>,
    <<"T","e","t","r","i","s">>,
    <<"T","e","t","r","i","s"," ","W","u","r","l","d">>
  }

(***************************************************************************)
(* The three costly pure functions, tabulated over the arguments the       *)
(* catalogs and queries of the model can give them: a constant is          *)
(* evaluated once, where an action would compute the value at every step.  *)
(***************************************************************************)
LoadedCaches == {LoadBoxartCache(f, <<>>, {}).cache : f \in Files}
PlatformSets == {LoadBoxartCache(f, <<>>, {}).systems : f \in Files}
SysHintValues == {None} \cup UNION PlatformSets

AliasTable == {<<S, BuildSystemAliases(S)>> : S \in PlatformSets}
AliasMapOf(systems) == (CHOOSE p \in AliasTable : p[1] = systems)[2]

CanonTable ==
    {<<h, m, S, CanonResolve(h, m, S)>> :
        h \in Hints, m \in {p[2] : p \in AliasTable}, S \in PlatformSets}
CanonResolveOf(hint, aliasMap, systems) ==
    (CHOOSE p \in CanonTable : p[1] = hint /\ p[2] = aliasMap /\ p[3] = systems)[4]

SelectTable ==
    {<<c, h, g, SelectMatch(c, h, g)>> :
        c \in LoadedCaches \ {<<>>}, h \in SysHintValues, g \in Titles}
SelectMatchOf(cache, sys_hint, game_name) ==
    (CHOOSE p \in SelectTable : p[1] = cache /\ p[2] = sys_hint /\ p[3] = game_name)[4]

\* how many "Box art cache not found" lines a run may print
MaxLogLines == 2

(***************************************************************************)
(* The engine's calls on its module state. Each call is a chain of         *)
(* definitions, one per stretch of the function, each handing what it      *)
(* computed to the next.                                                   *)
(***************************************************************************)
\* _SYSTEM_ALIAS_MAP is None until _build_system_aliases sets it: built says
\* which, map is the dict.
NoAliasMap == [built |-> FALSE, map |-> <<>>]

\* What a call hands back: the value returned, the module state it leaves,
\* how many "not found" lines it printed, whether it raised.
Outcome(ret, cache, systems, alias, notFound, raised) ==
    [ret |-> ret, cache |-> cache, systems |-> systems, alias |-> alias,
     notFound |-> notFound, raised |-> raised]

\* _build_system_aliases: builds the map when it is None, else returns
BuildIfNone(alias, systems) ==
    IF alias.built THEN alias ELSE [built |-> TRUE, map |-> AliasMapOf(systems)]

\* _canon_system from "_build_system_aliases()" on; ld is what the load left
CanonSystemBuilt(hint, ld, alias) ==
    Outcome(CanonResolveOf(hint, alias.map, ld.systems), ld.cache, ld.systems, alias,
            IF ld.notFound THEN 1 ELSE 0, FALSE)

CanonSystemLoaded(hint, ld, alias) ==
    IF ld.raised
    THEN Outcome(None, ld.cache, ld.systems, alias, 0, TRUE)
    ELSE CanonSystemBuilt(hint, ld, BuildIfNone(alias, ld.systems))

\* _canon_system(hint), the second definition (it replaces the first when the
\* module is loaded)
CanonSystem(src, cache, systems, alias, hint) ==
    IF ~ Truthy(hint) THEN Outcome(None, cache, systems, alias, 0, FALSE)
    ELSE CanonSystemLoaded(hint,
             IF cache # <<>> /\ systems # {}
             THEN [cache |-> cache, systems |-> systems,
                   notFound |-> FALSE, raised |-> FALSE]
             ELSE LoadBoxartCache(src, cache, systems),
             alias)

\* what the variable last holds before any call, and the fields a call that
\* shows no candidate leaves as they are
NoCall ==
    [op |-> "none", system_hint |-> <<>>, game_name |-> <<>>, raised |-> FALSE,
     sys_hint |-> None, line |-> "none", scoped |-> FALSE, scored |-> <<>>,
     score |-> 0, min_needed |-> 0, sys |-> None, fn |-> None, ret |-> NoMatch]

FindCall(system_hint, game_name) ==
    [NoCall EXCEPT !.op = "find", !.system_hint = system_hint, !.game_name = game_name]

\* find_boxart_and_url from "candidates = CACHE" on; cn is what _canon_system
\* handed back, sel the selection
FindSelected(call, cn, sel) ==
    Outcome([call EXCEPT !.sys_hint = cn.ret, !.line = sel.line, !.scoped = sel.scoped,
                         !.scored = sel.scored, !.score = sel.score,
                         !.min_needed = sel.min_needed, !.sys = sel.sys,
                         !.fn = sel.fn, !.ret = sel.ret],
            cn.cache, cn.systems, cn.alias, cn.notFound, FALSE)

FindResolved(call, cn) ==
    IF cn.raised
    THEN Outcome([call EXCEPT !.raised = TRUE], cn.cache, cn.systems, cn.alias,
                 cn.notFound, TRUE)
    ELSE FindSelected(call, cn, SelectMatchOf(cn.cache, cn.ret, call.game_name))

\* find_boxart_and_url after "_load_boxart_cache()"; ld is what the load left
FindLoaded(src, alias, call, ld) ==
    IF ld.raised
    THEN Outcome([call EXCEPT !.raised = TRUE], ld.cache, ld.systems, alias, 0, TRUE)
    ELSE IF ld.cache = <<>>
    THEN Outcome([call EXCEPT !.line = "empty"], ld.cache, ld.systems, alias,
                 IF ld.notFound THEN 1 ELSE 0, FALSE)
    ELSE FindResolved(call,
             CanonSystem(src, ld.cache, ld.systems, alias, call.system_hint))

\* find_boxart_and_url(system_hint, game_name); ret is the record of the call
FindBoxartAndUrl(src, cache, systems, alias, system_hint, game_name) ==
    FindLoaded(src, alias, FindCall(system_hint, game_name),
               LoadBoxartCache(src, cache, systems))

(***************************************************************************)
(* _score_candidate called by itself, as the scoring loop of                *)
(* find_boxart_and_url calls it for the catalog row of a file: the record   *)
(* keeps what each step of the function adds to or takes from base.         *)
(***************************************************************************)
TrialFiles == {
    <<"M","a","r","i","o"," ","(","U","S","A",")",".","p","n","g">>,
    <<"M","a","r","i","o"," ","(","E","u","r","o","p","e",")",".","p","n","g">>,
    <<"D","r","."," ","M","a","r","i","o"," ","(","D","e","m","o",")",".","p","n","g">>,
    <<"T","e","t","r","i","s"," ","(","W","o","r","l","d",")",".","p","n","g">>,
    <<"S","o","n","i","c"," ","(","R","e","v"," ","1",")",".","p","n","g">>,
    <<"C","r","a","s","h",".","p","n","g">>,
    <<"M","a","r","i","o"," ","(","U","S","A",")"," ","(","B","e","t","a",")",".","p","n","g">>,
    <<"S","o","n","i","c"," ","(","J","a","p","a","n",")"," ","(","P","r","o","t","o",")",".","p","n","g">>,
    <<"T","e","t","r","i","s"," ","(","W","o","r","l","d",")"," ","(","R","e","v"," ","1",")"," ","(","S","G","B"," ","E","n","h","a","n","c","e","d",")",".","p","n","g">>,
    <<"M","a","r","i","o"," ","(","E","n",",","F","r",")",".","p","n","g">>,
    <<"S","o","n","i","c"," ","(","U","n","l",")",".","p","n","g">>,
    <<"M","a","r","i","o",".","p","n","g">>,
    <<"T","e","t","r","i","s"," ","(","E","u","r","o","p","e",")"," ","(","V","i","r","t","u","a","l"," ","C","o","n","s","o","l","e",")",".","p","n","g">>,
    <<"S","o","n","i","c"," ","2"," ","(","S","a","m","p","l","e",")"," ","(","R","e","v"," ","1",")",".","p","n","g">>,
    <<"D","r","."," ","M","a","r","i","o"," ","(","J","a","p","a","n",")"," ","(","H","a","c","k",")",".","p","n","g">>
  }

NoTrial ==
    [op |-> "none", fn |-> <<>>, game_name |-> <<>>, base |-> 0, region |-> 0,
     bad |-> 0, soft |-> 0, extras |-> 0, tokens |-> 0, length |-> 0, score |-> 0]

\* the row the catalog builder writes for fn has key _normalize_key(stem)
ScoreSteps(fn, game_name) ==
    [op |-> "score", fn |-> fn, game_name |-> game_name,
     base   |-> BaseScore(NormalizeKey(Stem(fn)), NormalizeKey(game_name)),
     region |-> RegionBonus(Stem(fn), RegionTokensFromTitle(game_name)),
     bad    |-> BadQualifierPenalty(Stem(fn)),
     soft   |-> SoftQualifierPenalty(Stem(fn)),
     extras |-> ExtrasPenalty(Stem(fn)),
     tokens |-> BaseTokenPenalty(NormalizeKey(Stem(fn)), BaseTokens(game_name)),
     length |-> LengthPenalty(Stem(fn), Len(Stem(game_name))),
     score  |-> ScoreCandidate(Stem(fn), NormalizeKey(Stem(fn)), NormalizeKey(game_name),
                               RegionTokensFromTitle(game_name), Len(Stem(game_name)),
                               BaseTokens(game_name))]

\* ScoreSteps tabulated over the files and titles of the model
ScoreTable == {<<fn, g, ScoreSteps(fn, g)>> : fn \in TrialFiles, g \in Titles}
ScoreStepsOf(fn, game_name) ==
    (CHOOSE p \in ScoreTable : p[1] = fn /\ p[2] = game_name)[3]

(***************************************************************************)
(* State                                                                   *)
(***************************************************************************)
VARIABLES
    source,             \* the file BOXART_CACHE_FILE names
    CACHE,              \* the list CACHE
    SYSTEMS_FROM_CACHE, \* the set _SYSTEMS_FROM_CACHE
    SYSTEM_ALIAS_MAP,   \* _SYSTEM_ALIAS_MAP
    aliasBuilds,        \* history: _SYSTEMS_FROM_CACHE at each build of the alias map
    notFoundLines,      \* the "Box art cache not found" lines printed so far
    last,               \* the last call: its arguments, what it printed and returned
    trial               \* the last call of _score_candidate by itself, step by step

vars == <<source, CACHE, SYSTEMS_FROM_CACHE, SYSTEM_ALIAS_MAP, aliasBuilds,
          notFoundLines, last, trial>>

Init ==
    /\ source \in Sources
    /\ CACHE = <<>>
    /\ SYSTEMS_FROM_CACHE = {}
    /\ SYSTEM_ALIAS_MAP = NoAliasMap
    /\ aliasBuilds = <<>>
    /\ notFoundLines = 0
    /\ last = NoCall
    /\ trial = NoTrial

\* the module state a call leaves
Leave(cache, systems, alias, printed) ==
    /\ notFoundLines + printed <= MaxLogLines
    /\ CACHE' = cache
    /\ SYSTEMS_FROM_CACHE' = systems
    /\ SYSTEM_ALIAS_MAP' = alias
    /\ aliasBuilds' = IF alias.built /\ ~ SYSTEM_ALIAS_MAP.built
                      THEN Append(aliasBuilds, systems) ELSE aliasBuilds
    /\ notFoundLines' = notFoundLines + printed
    /\ UNCHANGED <<source, trial>>

\* set_presence calls find_boxart_and_url(system, game)
Find(system_hint, game_name) ==
    \E r \in {FindBoxartAndUrl(source, CACHE, SYSTEMS_FROM_CACHE, SYSTEM_ALIAS_MAP,
                                system_hint, game_name)} :
        /\ Leave(r.cache, r.systems, r.alias, r.notFound)
        /\ last' = r.ret

\* a call of _canon_system(hint) by itself
Canon(hint) ==
    \E r \in {CanonSystem(source, CACHE, SYSTEMS_FROM_CACHE, SYSTEM_ALIAS_MAP, hint)} :
        /\ Leave(r.cache, r.systems, r.alias, r.notFound)
        /\ last' = [NoCall EXCEPT !.op = "canon", !.system_hint = hint,
                                  !.raised = r.raised, !.sys_hint = r.ret]

\* the catalog builder writes the source while the process runs
SourceAppears(file) ==
    /\ source.kind = "absent"
    /\ source' = file
    /\ UNCHANGED <<CACHE, SYSTEMS_FROM_CACHE, SYSTEM_ALIAS_MAP, aliasBuilds,
                   notFoundLines, last, trial>>

Next ==
    \/ \E h \in Hints, g \in Titles : Find(h, g)
    \/ \E h \in Hints : Canon(h)
    \/ SourceAppears(CatalogA)

Spec == Init /\ [][Next]_vars

(***************************************************************************)
(* The scorer by itself: every file of TrialFiles scored against every     *)
(* title of Titles.                                                        *)
(***************************************************************************)
InitScore ==
    /\ source = Absent
    /\ CACHE = <<>>
    /\ SYSTEMS_FROM_CACHE = {}
    /\ SYSTEM_ALIAS_MAP = NoAliasMap
    /\ aliasBuilds = <<>>
    /\ notFoundLines = 0
    /\ last = NoCall
    /\ trial = NoTrial

Score(fn, game_name) ==
    /\ trial' = ScoreStepsOf(fn, game_name)
    /\ UNCHANGED <<source, CACHE, SYSTEMS_FROM_CACHE, SYSTEM_ALIAS_MAP, aliasBuilds,
                   notFoundLines, last>>

NextScore == \E fn \in TrialFiles, g \in Titles : Score(fn, g)

SpecScore == InitScore /\ [][NextScore]_vars

(***************************************************************************)
(* Properties                                                              *)
(***************************************************************************)
\* a call of find_boxart_and_url that returned
FindReturned == last.op = "find" /\ ~ last.raised

\* ... and got as far as the confidence gate (no exact-stem hit, scored not empty)
ReachedGate == FindReturned /\ last.line \in {"scored", "low confidence", "different system"}

\* the pool the last call of find_boxart_and_url looked through
LastPool == Candidates(CACHE, last.sys_hint)

\* C1: with no exact-stem hit, the top candidate has the shortest filename
\* among the candidates of the pool that share the highest score (stated for
\* the titles that have a key, where the scores tell candidates apart).
C1_TopIsShortestAmongTies ==
    (ReachedGate /\ NormalizeKey(last.game_name) # <<>>) =>
        \A i \in 1..Len(last.scored) :
            last.scored[i][1] = last.score => Len(last.fn) <= last.scored[i][2]

\* C2: a hint that is a key of SYSTEM_MAP resolves to the folder SYSTEM_MAP
\* gives it, whatever the alias map, the folder match and the fuzzy match say
\* (stated for the calls made with the catalog loaded).
C2_StaticMapDecidesFirst ==
    (/\ \/ last.op = "canon"
        \/ last.op = "find" /\ last.line # "empty"
     /\ ~ last.raised
     /\ CACHE # <<>>
     /\ last.system_hint \in DictKeys(SYSTEM_MAP))
    => last.sys_hint = DictGet(SYSTEM_MAP, last.system_hint)

\* C3: when the hint resolved to a folder P, the locators find_boxart_and_url
\* returns belong to no entry of the catalog whose folder differs from P.
C3_NeverAnotherPlatform ==
    (FindReturned /\ Truthy(last.sys_hint) /\ last.ret # NoMatch) =>
        \A i \in 1..Len(CACHE) :
            <<CACHE[i].raw_url, CACHE[i].blob_url>> = last.ret
                => CACHE[i].system = last.sys_hint

\* a hint resolved, the catalog holds other platforms too, and the exact-stem
\* loop returned an entry
C3_Witness ==
    /\ FindReturned /\ Truthy(last.sys_hint) /\ last.ret # NoMatch
    /\ last.line = "exact"
    /\ \E i \in 1..Len(CACHE) : CACHE[i].system # last.sys_hint

\* C4: on the scored path the top candidate is returned only with a score of
\* at least 80 when the pool was scoped and at least 90 when it was not; a top
\* score in 80..89 is returned when scoped and gives NoMatch when unscoped.
C4_ConfidenceGate ==
    /\ (FindReturned /\ last.line = "scored")
          => last.score >= (IF last.scoped THEN 80 ELSE 90)
    /\ (ReachedGate /\ last.score \in 80..89)
          => IF last.scoped THEN last.ret # NoMatch ELSE last.ret = NoMatch

\* a scoped pool whose top score lies in 80..89 and is returned
C4_Witness ==
    /\ ReachedGate /\ last.scoped /\ last.score \in 80..89
    /\ last.line = "scored" /\ last.ret # NoMatch

\* C5: when the stem of some candidate of the pool equals the title, case
\* aside, find_boxart_and_url returns such a candidate by the exact-stem loop.
C5_ExactStemShortCircuit ==
    (/\ FindReturned /\ last.line # "empty"
     /\ \E i \in 1..Len(LastPool) : Lower(Stem(LastPool[i].fn)) = Lower(last.game_name))
    => /\ last.line = "exact"
       /\ last.ret # NoMatch
       /\ Lower(Stem(last.fn)) = Lower(last.game_name)

\* the parenthetical tokens of the file the last trial scored
TrialTokens == ParenTokens(Stem(trial.fn))

\* C6 as the code has it: the extras penalty is 3 for each parenthetical token
\* of the candidate that is not a region token, whether or not the token holds
\* a bad or a soft qualifier.
C6_ExtrasPerNonRegionToken ==
    trial.op = "score" =>
        trial.extras =
            3 * Cardinality({i \in 1..Len(TrialTokens) : ~ IsRegionToken(TrialTokens[i])})

\* a candidate with a token that holds a qualifier and is no region token
C6_Witness ==
    /\ trial.op = "score"
    /\ \E i \in 1..Len(TrialTokens) :
          CarriesQualifier(TrialTokens[i]) /\ ~ IsRegionToken(TrialTokens[i])
    /\ trial.bad + trial.soft > 0
    /\ trial.extras > 0

\* C6 as claimed: the extras penalty is 3 for each parenthetical token that is
\* neither a region token nor a token the bad or the soft rule penalized.
C6_ExtrasSkipPenalizedTokens ==
    trial.op = "score" =>
        trial.extras =
            3 * Cardinality({i \in 1..Len(TrialTokens) :
                                /\ ~ IsRegionToken(TrialTokens[i])
                                /\ ~ CarriesQualifier(TrialTokens[i])})

\* C7: no call of find_boxart_and_url raises, and with an empty catalog it
\* returns NoMatch.
C7_FindNeverRaises ==
    last.op = "find" =>
        /\ ~ last.raised
        /\ CACHE = <<>> => (last.ret = NoMatch /\ last.line = "empty")

\* C8: while the source stays absent, a call of find_boxart_and_url that
\* follows one which printed "Box art cache not found" prints no such line.
C8_NotFoundLoggedOnce ==
    [][~ (/\ last.op = "find" /\ last'.op = "find"
          /\ notFoundLines >= 1
          /\ notFoundLines' > notFoundLines)]_vars

\* C9: the alias map is built at most once and only with the catalog loaded:
\* no state has a loaded catalog and an alias map built for an empty set of
\* folders, and every value of the alias map is a folder of the catalog.
C9_AliasMapBuiltAfterCatalog ==
    /\ Len(aliasBuilds) <= 1
    /\ (SYSTEM_ALIAS_MAP.built /\ CACHE # <<>>) => aliasBuilds[1] # {}
    /\ \A k \in DOMAIN SYSTEM_ALIAS_MAP.map :
          SYSTEM_ALIAS_MAP.map[k] \in SYSTEMS_FROM_CACHE

\* C10: a title whose key is empty gives NoMatch unless the exact-stem loop
\* returned a candidate.
C10_EmptyKeyNeverScoredMatch ==
    (FindReturned /\ last.line # "empty" /\ NormalizeKey(last.game_name) = <<>>
        /\ last.line # "exact")
    => last.ret = NoMatch

\* the key of a candidate stands in one of the three first branches of the
\* base score to the key of the title: equal, prefix either way, or holding it
KeyRelated(key, target_key) ==
    \/ key = target_key
    \/ StartsWith(key, target_key)
    \/ StartsWith(target_key, key)
    \/ Contains(target_key, key)

\* C11: every entry find_boxart_and_url returns by the scored path has a key
\* that equals the key of the title, is a prefix of it, has it as a prefix or
\* holds it; a candidate scored by the similarity ratio gets at most 65, below
\* the scoped gate of 80 and the unscoped gate of 90.
C11_ScoredMatchHasRelatedKey ==
    /\ (FindReturned /\ last.line = "scored") =>
          \A i \in 1..Len(CACHE) :
              <<CACHE[i].raw_url, CACHE[i].blob_url>> = last.ret
                  => KeyRelated(CACHE[i].key, NormalizeKey(last.game_name))
    /\ ReachedGate =>
          \A i \in 1..Len(LastPool) :
              ~ KeyRelated(LastPool[i].key, NormalizeKey(last.game_name))
                  => /\ last.scored[i][1] <= 65
                     /\ last.scored[i][1] < 80
                     /\ ~ (last.line = "scored" /\ last.fn = LastPool[i].fn
                           /\ last.sys = LastPool[i].system)

\* the top candidate is a near miss scored by the similarity ratio: more than
\* half of the scale, and refused at the gate
C11_Witness ==
    /\ ReachedGate /\ last.line = "low confidence"
    /\ last.score >= 50
    /\ \E i \in 1..Len(LastPool) :
          /\ ~ KeyRelated(LastPool[i].key, NormalizeKey(last.game_name))
          /\ last.scored[i][1] = last.score
          /\ last.fn = LastPool[i].fn

====
